---- MODULE Spec2Model ----
(***************************************************************************)
(* A model of segmentor/cellbin/contrib/alignment.py: rotate,              *)
(* multiply_sum and the class AlignByTrack.                                *)
(*                                                                         *)
(* Numbers.  Full-resolution coordinates (landmark points, mass centres,   *)
(* offsets) are kept in half pixels, so that w / 2, (new_w - ori_w) / 2    *)
(* and the median of an even number of integers are exact: the integer k   *)
(* stands for k / 2 pixels.  The offset handed to cal_score is a pair of   *)
(* fractions [n |-> .., d |-> ..].  The angles are 0, 90, 180, 270, whose  *)
(* sine and cosine are taken as exact.  NaN stands for the float nan.      *)
(***************************************************************************)
EXTENDS Integers, Sequences, FiniteSets, TLC

VARIABLES self, args, pc, num, score_record, offset_record, log, ret, twin

vars == <<self, args, pc, num, score_record, offset_record, log, ret, twin>>

----------------------------------------------------------------------------
\* Bounds of the model.

\* Side length, in pixels, of the largest image cal_score is tried on.
MaxDim == 3
\* Largest offset, in half pixels, cal_score is tried on (on each axis).
MaxShift == 5
\* Largest number of points in a point set.
MaxPts == 2

----------------------------------------------------------------------------
\* Arithmetic of the Python and numpy runtime.

Abs(x) == IF x < 0 THEN -x ELSE x

Min2(x, y) == IF x <= y THEN x ELSE y

Max2(x, y) == IF x >= y THEN x ELSE y

\* The float nan.  No score or pixel of the model is negative, so -1 is free.
NaN == 0 - 1

\* x + y and x * y on floats that may be nan.
Add(x, y) == IF x = NaN \/ y = NaN THEN NaN ELSE x + y

Mul(x, y) == IF x = NaN \/ y = NaN THEN NaN ELSE x * y

\* x > y on floats: False when either is nan.
Gt(x, y) == x # NaN /\ y # NaN /\ x > y

\* int(round(abs(n / d))): abs, then round half to even.
IntRoundAbs(q) ==
    LET n == Abs(q.n)
        f == n \div q.d
        r == 2 * (n % q.d)
    IN  IF r < q.d THEN f
        ELSE IF r > q.d THEN f + 1
        ELSE IF f % 2 = 0 THEN f ELSE f + 1

\* a[start:stop] on an axis of length len, start >= 0: <<first index, count>>.
\* A negative stop counts from the end; both ends are clipped to the axis.
PySlice(len, start, stop) ==
    LET lo == Min2(start, len)
        hi == IF stop < 0 THEN Max2(stop + len, 0) ELSE Min2(stop, len)
    IN  <<lo, Max2(hi - lo, 0)>>

\* np.shape of an image, a sequence of rows: <<height, width>>.
Shape(img) == <<Len(img), IF Len(img) = 0 THEN 0 ELSE Len(img[1])>>

\* img[r0:r1, c0:c1] as a view: the image, the first row and column, the counts.
View(img, r0, r1, c0, c1) ==
    LET sh == Shape(img)
        rs == PySlice(sh[1], r0, r1)
        cs == PySlice(sh[2], c0, c1)
    IN  [img |-> img, r0 |-> rs[1], nr |-> rs[2], c0 |-> cs[1], nc |-> cs[2]]

\* res = 0, then res += s[k] for every k, in halves (the order of a sum of
\* whole numbers does not matter).
RECURSIVE SumRange(_, _, _)
SumRange(s, lo, hi) ==
    IF lo > hi THEN 0
    ELSE IF lo = hi THEN s[lo]
    ELSE Add(SumRange(s, lo, (lo + hi) \div 2), SumRange(s, ((lo + hi) \div 2) + 1, hi))

SeqSum(s) == SumRange(s, 1, Len(s))

----------------------------------------------------------------------------
\* rotate and get_new_shape.

Cos(angle) == CASE angle = 0 -> 1 [] angle = 90 -> 0 [] angle = 180 -> -1 [] angle = 270 -> 0

Sin(angle) == CASE angle = 0 -> 0 [] angle = 90 -> 1 [] angle = 180 -> 0 [] angle = 270 -> -1

\* ptx, pty and the result are in half pixels; the shapes are in pixels.
rotate(ptx, pty, angle, original_shape, new_shape) ==
    LET ori_h == original_shape[1]
        ori_w == original_shape[2]
        new_h == new_shape[1]
        new_w == new_shape[2]
        cx == ori_w
        cy == ori_h
        new_px == cx + (ptx - cx) * Cos(angle) + (pty - cy) * Sin(angle)
        new_py == cy + (0 - ((ptx - cx) * Sin(angle))) + (pty - cy) * Cos(angle)
        x_offset == new_w - ori_w
        y_offset == new_h - ori_h
    IN  <<new_px + x_offset, new_py + y_offset>>

get_new_shape(old_shape, angle) ==
    LET h == old_shape[1]
        w == old_shape[2]
        new_w == h * Abs(Sin(angle)) + w * Abs(Cos(angle))
        new_h == w * Abs(Sin(angle)) + h * Abs(Cos(angle))
    IN  <<new_h, new_w>>

----------------------------------------------------------------------------
\* multiply_sum and cal_score.

\* a[i][j] of a view, i and j from 0, inside the view.
At(a, i, j) == a.img[a.r0 + i + 1][a.c0 + j + 1]

\* Whether multiply_sum(a, b) reads an element outside b: it loops over the
\* shape of a alone, and the compiled loop checks no index.
ReadsOutside(a, b) == a.nr > 0 /\ a.nc > 0 /\ (b.nr < a.nr \/ b.nc < a.nc)

\* b[i][j] as the compiled loop reads it: outside the view it is whatever the
\* memory holds there, g.
ReadAt(b, i, j, g) == IF i < b.nr /\ j < b.nc THEN At(b, i, j) ELSE g

multiply_sum(a, b, g) ==
    LET h == a.nr
        w == a.nc
    IN  IF h = 0 \/ w = 0 THEN 0
        ELSE SeqSum([k \in 1..(h * w) |->
                 Mul(At(a, (k - 1) \div w, (k - 1) % w),
                     ReadAt(b, (k - 1) \div w, (k - 1) % w, g))])

\* cal_score_overlap with the roles of the two images swapped: the shift is
\* applied to the wrong image.
cal_score_overlap_swapped(transformed_image, vision_image, offset) ==
    LET x == IF offset[1].n < 0 THEN 0 ELSE IntRoundAbs(offset[1])
        x0 == IF offset[1].n < 0 THEN IntRoundAbs(offset[1]) ELSE 0
        y == IF offset[2].n < 0 THEN 0 ELSE IntRoundAbs(offset[2])
        y0 == IF offset[2].n < 0 THEN IntRoundAbs(offset[2]) ELSE 0
        shape_vision == Shape(vision_image)
        shape_white == Shape(transformed_image)
    IN  [x |-> x, x0 |-> x0, y |-> y, y0 |-> y0,
         h |-> Min2(shape_vision[1] - y0, shape_white[1] - y),
         w |-> Min2(shape_vision[2] - x0, shape_white[2] - x)]

\* The start indices and the overlap size cal_score computes: x, x0, y, y0, h, w.
cal_score_overlap(transformed_image, vision_image, offset) ==
    LET x == IF offset[1].n < 0 THEN IntRoundAbs(offset[1]) ELSE 0
        x0 == IF offset[1].n < 0 THEN 0 ELSE IntRoundAbs(offset[1])
        y == IF offset[2].n < 0 THEN IntRoundAbs(offset[2]) ELSE 0
        y0 == IF offset[2].n < 0 THEN 0 ELSE IntRoundAbs(offset[2])
        shape_vision == Shape(vision_image)
        shape_white == Shape(transformed_image)
    IN  [x |-> x, x0 |-> x0, y |-> y, y0 |-> y0,
         h |-> Min2(shape_vision[1] - y0, shape_white[1] - y),
         w |-> Min2(shape_vision[2] - x0, shape_white[2] - x)]

\* The two slices cal_score hands to multiply_sum.
cal_score_slices(transformed_image, vision_image, offset) ==
    LET o == cal_score_overlap(transformed_image, vision_image, offset)
    IN  <<View(vision_image, o.y0, o.y0 + o.h, o.x0, o.x0 + o.w),
          View(transformed_image, o.y, o.y + o.h, o.x, o.x + o.w)>>

cal_score(transformed_image, vision_image, offset, g) ==
    LET s == cal_score_slices(transformed_image, vision_image, offset)
    IN  multiply_sum(s[1], s[2], g)

\* What a read outside an array may find: zeroed memory, other data, a nan.
Garbage == <<0, 1000, NaN>>

----------------------------------------------------------------------------
\* cal_score as a function of its arguments: the arguments are drawn in the
\* initial state and one step applies it.

\* Python's None: a field not set, a variable no frame holds.
None == "None"

\* An h x w image of varied pixels.
GridImage(h, w, k) == [r \in 1..h |-> [c \in 1..w |-> (k + 2 * r + 3 * c) % 5]]

ScoreImages == {GridImage(h, w, k) : h \in 1..MaxDim, w \in 1..MaxDim, k \in {0, 3}}

\* Offsets of whole and half pixels, of either sign.
ScoreOffsets == {[n |-> k, d |-> 2] : k \in (0 - MaxShift)..MaxShift}

InitScore ==
    /\ args \in [transformed_image : ScoreImages, vision_image : ScoreImages,
                 offset : ScoreOffsets \X ScoreOffsets]
    /\ pc = "call"
    /\ ret = None
    /\ self = None /\ num = None /\ score_record = None /\ offset_record = None
    /\ log = None /\ twin = None

CalScore ==
    /\ pc = "call"
    /\ \E k \in 1..Len(Garbage) :
         ret' = cal_score(args.transformed_image, args.vision_image, args.offset, Garbage[k])
    /\ pc' = "scored"
    /\ UNCHANGED <<self, args, num, score_record, offset_record, log, twin>>

NextScore == CalScore

SpecScore == InitScore /\ [][NextScore]_vars

\* C4: whenever the overlap height or width cal_score computes is <= 0, it
\* returns 0, reads no element outside either image and hands multiply_sum two
\* slices of the same shape.
C4_NoOverlapScoresZero ==
    pc = "scored" =>
        LET o == cal_score_overlap(args.transformed_image, args.vision_image, args.offset)
            s == cal_score_slices(args.transformed_image, args.vision_image, args.offset)
        IN  (o.h <= 0 \/ o.w <= 0) =>
                /\ ret = 0
                /\ ~ReadsOutside(s[1], s[2])
                /\ <<s[1].nr, s[1].nc>> = <<s[2].nr, s[2].nc>>

\* C8: when the overlap rectangle is not empty, cal_score returns the sum of
\* vision[y0+i][x0+j] * transformed[y+i][x+j] over 0 <= i < h, 0 <= j < w, with
\* (x0, x) = (0, round|ox|) if ox < 0 and (round|ox|, 0) otherwise, (y0, y)
\* likewise, h and w the smaller remaining extents; for offset (0, 0) and two
\* identical images that is the sum of the squares of the image's pixels.
C8_ScoreIsOverlapSum ==
    pc = "scored" =>
        LET v == args.vision_image
            t == args.transformed_image
            ox == args.offset[1]
            oy == args.offset[2]
            x0 == IF ox.n < 0 THEN 0 ELSE IntRoundAbs(ox)
            x == IF ox.n < 0 THEN IntRoundAbs(ox) ELSE 0
            y0 == IF oy.n < 0 THEN 0 ELSE IntRoundAbs(oy)
            y == IF oy.n < 0 THEN IntRoundAbs(oy) ELSE 0
            h == Min2(Len(v) - y0, Len(t) - y)
            w == Min2(Len(v[1]) - x0, Len(t[1]) - x)
        IN  /\ (h > 0 /\ w > 0) =>
                ret = SeqSum([k \in 1..(h * w) |->
                          v[y0 + ((k - 1) \div w) + 1][x0 + ((k - 1) % w) + 1]
                        * t[y + ((k - 1) \div w) + 1][x + ((k - 1) % w) + 1]])
            /\ (ox.n = 0 /\ oy.n = 0 /\ v = t) =>
                ret = SeqSum([k \in 1..(Len(v) * Len(v[1])) |->
                          v[((k - 1) \div Len(v[1])) + 1][((k - 1) % Len(v[1])) + 1]
                        * v[((k - 1) \div Len(v[1])) + 1][((k - 1) % Len(v[1])) + 1]])

\* A partial overlap of two images of different shapes, scored above 0.
C8_Witness ==
    /\ pc = "scored"
    /\ Shape(args.vision_image) # Shape(args.transformed_image)
    /\ args.offset[1].n < 0 /\ args.offset[2].n > 0
    /\ LET o == cal_score_overlap(args.transformed_image, args.vision_image, args.offset)
       IN  o.h > 0 /\ o.w > 0 /\ o.x > 0 /\ o.y0 > 0
    /\ ret > 0

----------------------------------------------------------------------------
\* get_pts_based_on_ids and get_rough_offset.

\* The rows of pts_ids tagged keep_ids, without the tag columns.
get_pts_based_on_ids(pts_ids, keep_ids) ==
    LET selected == SelectSeq(pts_ids, LAMBDA p : p[3] = keep_ids[1] /\ p[4] = keep_ids[2])
    IN  [i \in 1..Len(selected) |-> <<selected[i][1], selected[i][2]>>]

\* The square of the distance cdist computes, in half pixels squared.
SqDist(p, q) == (p[1] - q[1]) * (p[1] - q[1]) + (p[2] - q[2]) * (p[2] - q[2])

\* np.min and np.argmin along a row that is not empty (argmin from 1: the
\* first index of the smallest element).
RowMin(row) == CHOOSE m \in {row[j] : j \in 1..Len(row)} : \A j \in 1..Len(row) : m <= row[j]

RowArgMin(row) ==
    CHOOSE j \in 1..Len(row) :
        /\ \A k \in 1..Len(row) : row[j] <= row[k]
        /\ \A k \in 1..(j - 1) : row[k] > row[j]

\* dist <= dist_thresh, for the squared distance sq in half pixels squared and
\* the threshold in pixels, the fraction dist_thresh.n / dist_thresh.d >= 0.
WithinThresh(sq, dist_thresh) ==
    sq * dist_thresh.d * dist_thresh.d <= 4 * dist_thresh.n * dist_thresh.n

\* np.median of a sequence that is not empty: the middle of the sorted values,
\* or the mean of the two middle ones (exact: the values are whole pixels).
np_median(vals) ==
    LET s == SortSeq(vals, LAMBDA a, b : a < b)
        n == Len(s)
    IN  IF n % 2 = 1 THEN s[(n + 1) \div 2]
        ELSE (s[n \div 2] + s[(n \div 2) + 1]) \div 2

\* get_rough_offset as the spec words it: the differences are taken from the
\* translated points.
get_rough_offset_translated(offset_guess, rot_guess, old_shape, new_shape, transformed_pts, vision_pts, dist_thresh) ==
    LET transformed_pts_temp ==
            [i \in 1..Len(transformed_pts) |->
                rotate(transformed_pts[i][1], transformed_pts[i][2], rot_guess, old_shape, new_shape)]
        moved == [i \in 1..Len(transformed_pts) |->
                    <<transformed_pts_temp[i][1] + offset_guess[1],
                      transformed_pts_temp[i][2] + offset_guess[2]>>]
        dist == [i \in 1..Len(transformed_pts) |->
                    [j \in 1..Len(vision_pts) |-> SqDist(moved[i], vision_pts[j])]]
        keep == {i \in 1..Len(transformed_pts) : WithinThresh(RowMin(dist[i]), dist_thresh)}
        idx == SelectSeq([i \in 1..Len(transformed_pts) |-> i], LAMBDA i : i \in keep)
        xs == [k \in 1..Len(idx) |-> moved[idx[k]][1] - vision_pts[RowArgMin(dist[idx[k]])][1]]
        ys == [k \in 1..Len(idx) |-> moved[idx[k]][2] - vision_pts[RowArgMin(dist[idx[k]])][2]]
    IN  IF Len(vision_pts) = 0
        THEN [raised |-> TRUE, x_offset |-> 0, y_offset |-> 0]
        ELSE IF Len(idx) > 0
        THEN [raised |-> FALSE, x_offset |-> 0 - np_median(xs), y_offset |-> 0 - np_median(ys)]
        ELSE [raised |-> FALSE, x_offset |-> 0, y_offset |-> 0]

\* The result is [raised, x_offset, y_offset]: raised when np.min(dist, axis=1)
\* has nothing to reduce (no vision point), a ValueError.
get_rough_offset(offset_guess, rot_guess, old_shape, new_shape, transformed_pts, vision_pts, dist_thresh) ==
    LET transformed_pts_temp ==
            [i \in 1..Len(transformed_pts) |->
                rotate(transformed_pts[i][1], transformed_pts[i][2], rot_guess, old_shape, new_shape)]
        dist == [i \in 1..Len(transformed_pts) |->
                    [j \in 1..Len(vision_pts) |->
                        SqDist(<<transformed_pts_temp[i][1] + offset_guess[1],
                                 transformed_pts_temp[i][2] + offset_guess[2]>>,
                               vision_pts[j])]]
        qualified == {i \in 1..Len(transformed_pts) : WithinThresh(RowMin(dist[i]), dist_thresh)}
        idx == SelectSeq([i \in 1..Len(transformed_pts) |-> i], LAMBDA i : i \in qualified)
        transformed_pts_qualified == [k \in 1..Len(idx) |-> transformed_pts_temp[idx[k]]]
        vision_pt_qualified == [k \in 1..Len(idx) |-> vision_pts[RowArgMin(dist[idx[k]])]]
        xs == [k \in 1..Len(idx) |-> transformed_pts_qualified[k][1] - vision_pt_qualified[k][1]]
        ys == [k \in 1..Len(idx) |-> transformed_pts_qualified[k][2] - vision_pt_qualified[k][2]]
    IN  IF Len(vision_pts) = 0
        THEN [raised |-> TRUE, x_offset |-> 0, y_offset |-> 0]
        ELSE IF Len(transformed_pts_qualified) > 0
        THEN [raised |-> FALSE, x_offset |-> 0 - np_median(xs), y_offset |-> 0 - np_median(ys)]
        ELSE [raised |-> FALSE, x_offset |-> 0, y_offset |-> 0]

----------------------------------------------------------------------------
\* get_rough_offset as a function of its arguments.

\* The subsequence of pool at the indices in I, in pool order.
Pick(pool, I) == SelectSeq(pool, LAMBDA p : \E i \in I : pool[i] = p)

\* The point sets: up to MaxPts distinct points of a pool.
PointSets(pool) ==
    {Pick(pool, I) : I \in {J \in SUBSET (1..Len(pool)) : Cardinality(J) <= MaxPts}}

\* Points at whole pixels, in half pixels.
RoughPool == << <<0, 0>>, <<4, 4>>, <<8, 0>>, <<2, 6>> >>

\* Offset guesses on one axis, in half pixels: a mass centre may lie at a half pixel.
GuessVals == {0 - 4, 0, 1, 4}

Angles == {0, 90, 180, 270}

InitRough ==
    /\ \E old_shape \in {<<4, 4>>, <<2, 4>>}, rot_guess \in Angles, f \in {3, 6} :
         args \in [offset_guess : GuessVals \X GuessVals,
                   rot_guess : {rot_guess},
                   old_shape : {old_shape},
                   new_shape : {get_new_shape(old_shape, rot_guess)},
                   transformed_pts : PointSets(RoughPool),
                   vision_pts : PointSets(RoughPool),
                   dist_thresh : {[n |-> 2 * f, d |-> 3]}]
    /\ pc = "call"
    /\ ret = None
    /\ self = None /\ num = None /\ score_record = None /\ offset_record = None
    /\ log = None /\ twin = None

GetRoughOffset ==
    /\ pc = "call"
    /\ ret' = get_rough_offset(args.offset_guess, args.rot_guess, args.old_shape,
                               args.new_shape, args.transformed_pts, args.vision_pts,
                               args.dist_thresh)
    /\ pc' = "returned"
    /\ UNCHANGED <<self, args, num, score_record, offset_record, log, twin>>

NextRough == GetRoughOffset

SpecRough == InitRough /\ [][NextRough]_vars

\* The claims' own reading of the arguments: the rotated points, the rotated
\* and translated points, the pairs within dist_thresh.
RoughRotated == [i \in 1..Len(args.transformed_pts) |->
    rotate(args.transformed_pts[i][1], args.transformed_pts[i][2], args.rot_guess,
           args.old_shape, args.new_shape)]

RoughMoved == [i \in 1..Len(args.transformed_pts) |->
    <<RoughRotated[i][1] + args.offset_guess[1], RoughRotated[i][2] + args.offset_guess[2]>>]

RoughNear(i, j) == WithinThresh(SqDist(RoughMoved[i], args.vision_pts[j]), args.dist_thresh)

RoughQualified == {i \in 1..Len(args.transformed_pts) : \E j \in 1..Len(args.vision_pts) : RoughNear(i, j)}

\* The vision point matched to point i: the first of the nearest ones.
RoughMatch(i) ==
    LET j == CHOOSE j \in 1..Len(args.vision_pts) :
                 /\ \A k \in 1..Len(args.vision_pts) :
                       SqDist(RoughMoved[i], args.vision_pts[j]) <= SqDist(RoughMoved[i], args.vision_pts[k])
                 /\ \A k \in 1..(j - 1) :
                       SqDist(RoughMoved[i], args.vision_pts[k]) > SqDist(RoughMoved[i], args.vision_pts[j])
    IN  args.vision_pts[j]

\* Twice the median of the values d[i], i in the non-empty set I, by rank: the
\* k-th smallest is the value with fewer than k values below it and at least k
\* values not above it.
Kth(d, I, k) ==
    CHOOSE v \in {d[i] : i \in I} :
        /\ Cardinality({i \in I : d[i] < v}) < k
        /\ Cardinality({i \in I : d[i] <= v}) >= k

TwiceMedian(d, I) ==
    LET n == Cardinality(I)
    IN  IF n % 2 = 1 THEN 2 * Kth(d, I, (n + 1) \div 2)
        ELSE Kth(d, I, n \div 2) + Kth(d, I, (n \div 2) + 1)

RoughCoincide ==
    /\ Len(args.transformed_pts) > 0
    /\ \A i \in 1..Len(args.transformed_pts) :
          \E j \in 1..Len(args.vision_pts) : RoughMoved[i] = args.vision_pts[j]

\* C5 as stated: if every rotated and translated point coincides with a vision
\* point the result is (0, 0), whatever offset_guess is; in general the result
\* is the negative median, per axis, of (translated point - matched vision
\* point) over the qualified points.
C5_AsStated ==
    (pc = "returned" /\ ~ret.raised) =>
        /\ RoughCoincide => (ret.x_offset = 0 /\ ret.y_offset = 0)
        /\ RoughQualified # {} =>
              /\ 2 * ret.x_offset = 0 - TwiceMedian([i \in RoughQualified |-> RoughMoved[i][1] - RoughMatch(i)[1]], RoughQualified)
              /\ 2 * ret.y_offset = 0 - TwiceMedian([i \in RoughQualified |-> RoughMoved[i][2] - RoughMatch(i)[2]], RoughQualified)

\* C5, amended: with at least one qualified point the result is the negative
\* median, per axis, of (rotated point, before translation, - matched vision
\* point) over the qualified points; so if every rotated and translated point
\* coincides with a vision point the result is offset_guess itself.
C5_MedianOfRotated ==
    (pc = "returned" /\ RoughQualified # {}) =>
        /\ ~ret.raised
        /\ 2 * ret.x_offset = 0 - TwiceMedian([i \in RoughQualified |-> RoughRotated[i][1] - RoughMatch(i)[1]], RoughQualified)
        /\ 2 * ret.y_offset = 0 - TwiceMedian([i \in RoughQualified |-> RoughRotated[i][2] - RoughMatch(i)[2]], RoughQualified)
        /\ RoughCoincide => <<ret.x_offset, ret.y_offset>> = args.offset_guess

\* Two points, rotated by 90 degrees, land on two vision points under a guess
\* that is not zero.
C5_Witness ==
    /\ pc = "returned"
    /\ RoughCoincide
    /\ Len(args.transformed_pts) = 2
    /\ args.rot_guess = 90
    /\ args.offset_guess[1] # 0 /\ args.offset_guess[2] # 0
    /\ <<ret.x_offset, ret.y_offset>> = args.offset_guess

\* C6: when no translated point is within dist_thresh of a vision point, the
\* vision set being empty included, get_rough_offset raises nothing and
\* returns (0, 0).  (Stated for a transformed set that is not empty, where it
\* already fails.)
C6_NoPairGivesZero ==
    (pc = "returned" /\ RoughQualified = {} /\ Len(args.transformed_pts) > 0) =>
        (~ret.raised /\ ret.x_offset = 0 /\ ret.y_offset = 0)

----------------------------------------------------------------------------
\* The class AlignByTrack: its fields, set_chip_template, search_fov, the loop
\* of get_best_in_all_angles_offsets, run.

\* The factor of img[::5, ::5] and of np.array(offset_temp) / 5.
DownSample == 5

np_fliplr(img) == [r \in 1..Len(img) |-> [c \in 1..Len(img[r]) |-> img[r][Len(img[r]) + 1 - c]]]

\* One quarter turn of np.rot90: out[i][j] = m[j][w - 1 - i], from 0.
np_rot90_once(m) ==
    LET h == Len(m)
        w == Len(m[1])
        out == [i \in 1..w |-> SubSeq([j \in 1..h |-> m[j][w + 1 - i]], 1, h)]
    IN  SubSeq(out, 1, w)

RECURSIVE np_rot90(_, _)
np_rot90(m, k) == IF k = 0 THEN m ELSE np_rot90(np_rot90_once(m), k - 1)

\* Every fifth row and column, then (img - min) / (max - min) * 100: nan
\* everywhere when the sampled pixels are all equal (0 / 0).
down_sample_normalize(image) ==
    LET img == [r \in 1..((Len(image) + DownSample - 1) \div DownSample) |->
                 [c \in 1..((Len(image[1]) + DownSample - 1) \div DownSample) |->
                     image[DownSample * (r - 1) + 1][DownSample * (c - 1) + 1]]]
        vals == {img[r][c] : r \in 1..Len(img), c \in 1..Len(img[1])}
        lo == CHOOSE v \in vals : \A u \in vals : v <= u
        hi == CHOOSE v \in vals : \A u \in vals : v >= u
    IN  [r \in 1..Len(img) |-> [c \in 1..Len(img[1]) |->
            IF hi = lo THEN NaN ELSE ((img[r][c] - lo) * 100) \div (hi - lo)]]

\* The full-resolution images of the model: pixel (r, c), from 0, of image k
\* of shape h x w.  Image 0 is flat; the others are told apart by a flip and
\* by a quarter turn, and their sampled pixels normalize without remainder.
Pixel(k, r, c, h, w) ==
    CASE k = 0 -> 1
      [] k = 1 -> IF r < 5 /\ c < 5 THEN 2 ELSE IF c = w - 1 THEN 1 ELSE 0
      [] k = 2 -> ((r \div 5) + 2 * (c \div 5) + (IF c = w - 1 THEN 2 ELSE 0)) % 3

FullImage(h, w, k) == [r \in 1..h |-> [c \in 1..w |-> Pixel(k, r - 1, c - 1, h, w)]]

\* The images run is given, each named by <<h, w, k>>.
Catalogue == {<<10, 10, 1>>, <<5, 10, 2>>, <<10, 10, 0>>}

\* get_mass of cellbin.contrib.vision_track: the centre of mass of the
\* intensities, (x, y), here in half pixels (rounded down to one).
get_mass(img) ==
    LET h == Len(img)
        w == Len(img[1])
        total == SeqSum([k \in 1..(h * w) |-> img[((k - 1) \div w) + 1][((k - 1) % w) + 1]])
        sx == SeqSum([k \in 1..(h * w) |-> ((k - 1) % w) * img[((k - 1) \div w) + 1][((k - 1) % w) + 1]])
        sy == SeqSum([k \in 1..(h * w) |-> ((k - 1) \div w) * img[((k - 1) \div w) + 1][((k - 1) % w) + 1]])
    IN  <<(2 * sx) \div total, (2 * sy) \div total>>

\* What run derives from an image argument, flipped or not: its shape, its
\* mass centre and its downsampled, normalized copy.  Worked out once for
\* every image of the catalogue.
Derived(name, flip) ==
    LET image == FullImage(name[1], name[2], name[3])
        flipped == IF flip THEN np_fliplr(image) ELSE image
    IN  [name |-> name, flip |-> flip,
         shape |-> Shape(flipped),
         mass |-> get_mass(flipped),
         small |-> down_sample_normalize(flipped)]

DerivedTable == {Derived(name, flip) : name \in Catalogue, flip \in BOOLEAN}

Loaded(name, flip) == CHOOSE d \in DerivedTable : d.name = name /\ d.flip = flip

\* The fields __init__ sets.
NewInstance ==
    [search_angle_set |-> <<0, 90, 180, 270>>,
     search_range_x |-> <<0 - 2, 0 - 1, 0, 1, 2>>,
     search_range_y |-> <<0 - 2, 0 - 1, 0, 1, 2>>,
     x_template |-> None, y_template |-> None, fov_size |-> None, dist_thresh |-> None,
     transformed_shape |-> None, transformed_mass |-> None,
     vision_shape |-> None, vision_mass |-> None,
     vision_img |-> None, transformed_image |-> None,
     transformed_cfov_pts |-> None, vision_cfov_pts |-> None]

\* dist_thresh = sum * 2 / 3 is kept as a fraction, in pixels.
set_chip_template(inst, chip_template) ==
    [inst EXCEPT !.x_template = chip_template[1],
                 !.y_template = chip_template[2],
                 !.fov_size = SeqSum(chip_template[1]),
                 !.dist_thresh = [n |-> SeqSum(chip_template[1]) * 2, d |-> 3]]

\* The fields as run leaves them before it calls get_best_in_all_angles_offsets.
run_fields(inst, a) ==
    LET transformed == Loaded(a.transformed_image, a.flip)
        vision == Loaded(a.vision_img, FALSE)
    IN  [inst EXCEPT !.transformed_shape = transformed.shape,
                     !.transformed_mass = transformed.mass,
                     !.vision_shape = vision.shape,
                     !.vision_mass = vision.mass,
                     !.transformed_image = transformed.small,
                     !.vision_img = vision.small,
                     !.transformed_cfov_pts = get_pts_based_on_ids(a.stitch_tc, <<4, 4>>),
                     !.vision_cfov_pts = get_pts_based_on_ids(a.vision_cp, <<4, 4>>)]

\* What the k-th read outside an array finds, in a process whose memory is seed.
GarbageAt(seed, k) == Garbage[((seed + k) % Len(Garbage)) + 1]

\* The k-th candidate of search_fov in the order of its two loops, with the
\* offset handed to cal_score and its score: [cand, at, score].  cand is in
\* half pixels, at = cand / 5 in pixels.
search_fov_candidate(inst, white_image, offset_ori, seed, k) ==
    LET ny == Len(inst.search_range_y)
        row == inst.search_range_x[((k - 1) \div ny) + 1]
        col == inst.search_range_y[((k - 1) % ny) + 1]
        offset_temp == <<offset_ori[1] + col * inst.fov_size * 2,
                         offset_ori[2] + row * inst.fov_size * 2>>
        at == <<[n |-> offset_temp[1], d |-> 2 * DownSample],
                [n |-> offset_temp[2], d |-> 2 * DownSample]>>
    IN  [cand |-> offset_temp, at |-> at,
         score |-> cal_score(white_image, inst.vision_img, at, GarbageAt(seed, k))]

\* The first k candidates, scored, in order.
RECURSIVE search_fov_scored(_, _, _, _, _)
search_fov_scored(inst, white_image, offset_ori, seed, k) ==
    IF k = 0 THEN <<>>
    ELSE Append(search_fov_scored(inst, white_image, offset_ori, seed, k - 1),
                search_fov_candidate(inst, white_image, offset_ori, seed, k))

\* search_fov_loop with >= for >: a later candidate of equal score replaces
\* the earlier one, and a score of 0 is taken for a match.
RECURSIVE search_fov_loop_ge(_, _, _, _)
search_fov_loop_ge(scored, k, offset_last, score_max) ==
    IF k > Len(scored) THEN <<offset_last, score_max>>
    ELSE IF scored[k].score # NaN /\ scored[k].score >= score_max
         THEN search_fov_loop_ge(scored, k + 1, scored[k].cand, scored[k].score)
         ELSE search_fov_loop_ge(scored, k + 1, offset_last, score_max)

\* The loop of search_fov from candidate k on: <<offset_last, score_max>>.
RECURSIVE search_fov_loop(_, _, _, _)
search_fov_loop(scored, k, offset_last, score_max) ==
    IF k > Len(scored) THEN <<offset_last, score_max>>
    ELSE IF Gt(scored[k].score, score_max)
         THEN search_fov_loop(scored, k + 1, scored[k].cand, scored[k].score)
         ELSE search_fov_loop(scored, k + 1, offset_last, score_max)

\* What search_fov returns once its candidates are scored.
search_fov_result(scored, best) == [offset |-> best[1], score |-> best[2], scored |-> scored]

search_fov_best(scored) == search_fov_result(scored, search_fov_loop(scored, 1, <<>>, 0))

search_fov(inst, offset_ori, angle, seed) ==
    search_fov_best(search_fov_scored(inst, np_rot90(inst.transformed_image, angle \div 90),
                                      offset_ori, seed,
                                      Len(inst.search_range_x) * Len(inst.search_range_y)))

\* One pass of the loop of get_best_in_all_angles_offsets, from the rough
\* offset on: what it appends to offset_record and score_record, and, for the
\* record, the rough offset, the calls of search_fov it made and what they
\* scored.
hypothesis_searched(angle, offset_ori, found) ==
    [raised |-> FALSE, angle |-> angle, rough |-> offset_ori,
     calls |-> <<[offset_ori |-> offset_ori, angle |-> angle]>>,
     scored |-> found.scored, offset |-> found.offset, score |-> found.score]

\* hypothesis_gate with "or" for "and": a rough offset that is 0 on one axis
\* is searched too.
hypothesis_gate_either(inst, angle, rough, seed) ==
    IF rough.raised
    THEN [raised |-> TRUE, angle |-> angle, rough |-> <<>>, calls |-> <<>>,
          scored |-> <<>>, offset |-> <<>>, score |-> 0]
    ELSE IF rough.x_offset # 0 \/ rough.y_offset # 0
    THEN hypothesis_searched(angle, <<rough.x_offset, rough.y_offset>>,
             search_fov(inst, <<rough.x_offset, rough.y_offset>>, angle, seed))
    ELSE [raised |-> FALSE, angle |-> angle,
          rough |-> <<rough.x_offset, rough.y_offset>>,
          calls |-> <<>>, scored |-> <<>>, offset |-> <<>>, score |-> 0]

\* hypothesis_gate recording the rough offset, not an empty one, for a pass
\* it does not search.
hypothesis_gate_keeps_rough(inst, angle, rough, seed) ==
    IF rough.raised
    THEN [raised |-> TRUE, angle |-> angle, rough |-> <<>>, calls |-> <<>>,
          scored |-> <<>>, offset |-> <<>>, score |-> 0]
    ELSE IF rough.x_offset # 0 /\ rough.y_offset # 0
    THEN hypothesis_searched(angle, <<rough.x_offset, rough.y_offset>>,
             search_fov(inst, <<rough.x_offset, rough.y_offset>>, angle, seed))
    ELSE [raised |-> FALSE, angle |-> angle,
          rough |-> <<rough.x_offset, rough.y_offset>>,
          calls |-> <<>>, scored |-> <<>>,
          offset |-> <<rough.x_offset, rough.y_offset>>, score |-> 0]

hypothesis_gate(inst, angle, rough, seed) ==
    IF rough.raised
    THEN [raised |-> TRUE, angle |-> angle, rough |-> <<>>, calls |-> <<>>,
          scored |-> <<>>, offset |-> <<>>, score |-> 0]
    ELSE IF rough.x_offset # 0 /\ rough.y_offset # 0
    THEN hypothesis_searched(angle, <<rough.x_offset, rough.y_offset>>,
             search_fov(inst, <<rough.x_offset, rough.y_offset>>, angle, seed))
    ELSE [raised |-> FALSE, angle |-> angle,
          rough |-> <<rough.x_offset, rough.y_offset>>,
          calls |-> <<>>, scored |-> <<>>, offset |-> <<>>, score |-> 0]

\* The offset guess of one pass: vision_mass - the rotated transformed_mass.
hypothesis_guess(vision_mass, rot_mass) ==
    <<vision_mass[1] - rot_mass[1], vision_mass[2] - rot_mass[2]>>

hypothesis_rough(inst, angle, old_shape, new_shape) ==
    get_rough_offset(
        hypothesis_guess(inst.vision_mass,
                         rotate(inst.transformed_mass[1], inst.transformed_mass[2], angle,
                                inst.transformed_shape, new_shape)),
        angle, old_shape, new_shape,
        inst.transformed_cfov_pts, inst.vision_cfov_pts, inst.dist_thresh)

\* The pass for the angle at index n, from 0.
hypothesis_at(inst, angle, seed) ==
    hypothesis_gate(inst, angle,
        hypothesis_rough(inst, angle, inst.transformed_shape,
                         get_new_shape(inst.transformed_shape, angle)),
        seed)

hypothesis(inst, n, seed) == hypothesis_at(inst, inst.search_angle_set[n + 1], seed)

\* max(score_record) and score_record.index(...), from 0.
ListMax(l) == CHOOSE m \in {l[i] : i \in 1..Len(l)} : \A i \in 1..Len(l) : m >= l[i]

ListIndex(l, v) == (CHOOSE i \in 1..Len(l) : l[i] = v /\ \A j \in 1..(i - 1) : l[j] # v) - 1

\* select_best taking the last index of the largest score, not the first.
select_best_last(scores, offsets) ==
    LET rot_type == (CHOOSE i \in 1..Len(scores) :
                        scores[i] = ListMax(scores) /\ \A j \in (i + 1)..Len(scores) : scores[j] # scores[i]) - 1
    IN  [raised |-> FALSE, offset |-> offsets[rot_type + 1], rot_type |-> rot_type,
         score |-> ListMax(scores)]

\* The end of get_best_in_all_angles_offsets: (offset, rot_type, max score).
select_best(scores, offsets) ==
    LET rot_type == ListIndex(scores, ListMax(scores))
    IN  [raised |-> FALSE, offset |-> offsets[rot_type + 1], rot_type |-> rot_type,
         score |-> ListMax(scores)]

----------------------------------------------------------------------------
\* One instance: constructed, configured once, then run any number of times.

Templates == { << <<2, 4>>, <<2, 4>> >>, << <<4, 5>>, <<4, 5>> >> }

\* Landmark rows (x, y, idx_x, idx_y), x and y at whole pixels, in half pixels.
LandmarkPool == << <<4, 4, 4, 4>>, <<12, 8, 4, 4>>, <<8, 12, 0, 0>> >>

RunArgs ==
    [transformed_image : Catalogue, vision_img : Catalogue,
     vision_cp : PointSets(LandmarkPool), stitch_tc : PointSets(LandmarkPool),
     flip : BOOLEAN]

Init ==
    /\ self = NewInstance
    /\ pc = "new"
    /\ args = None /\ ret = None
    /\ num = None /\ score_record = None /\ offset_record = None
    /\ log = <<>>
    /\ twin = None

SetChipTemplate ==
    /\ pc = "new"
    /\ \E chip_template \in Templates : self' = set_chip_template(self, chip_template)
    /\ pc' = "configured"
    /\ UNCHANGED <<args, num, score_record, offset_record, log, ret, twin>>

\* run up to the first pass of the loop.
RunBegin(a) ==
    /\ pc \in {"configured", "done", "raised"}
    /\ self' = run_fields(self, a)
    /\ args' = a
    /\ score_record' = <<>>
    /\ offset_record' = <<>>
    /\ num' = 0
    /\ log' = <<>>
    /\ ret' = None
    /\ pc' = "loop"

\* What one pass leaves: a ValueError in get_rough_offset leaves run.
LoopRecord(e) ==
    IF e.raised
    THEN /\ pc' = "raised"
         /\ ret' = [raised |-> TRUE, offset |-> <<>>, rot_type |-> 0, score |-> 0]
         /\ UNCHANGED <<num, score_record, offset_record, log>>
    ELSE /\ offset_record' = Append(offset_record, e.offset)
         /\ score_record' = Append(score_record, e.score)
         /\ log' = Append(log, e)
         /\ num' = num + 1
         /\ UNCHANGED <<pc, ret>>

\* One pass of the loop.
LoopPass(seed) ==
    /\ pc = "loop"
    /\ num < Len(self.search_angle_set)
    /\ LoopRecord(hypothesis(self, num, seed))
    /\ UNCHANGED <<self, args>>

\* The loop is over: the best hypothesis is returned.
RunReturn ==
    /\ pc = "loop"
    /\ num = Len(self.search_angle_set)
    /\ ret' = select_best(score_record, offset_record)
    /\ pc' = "done"
    /\ UNCHANGED <<self, args, num, score_record, offset_record, log>>

Run == (\E a \in RunArgs : RunBegin(a)) /\ UNCHANGED twin

Hypothesis == (\E seed \in 0..(Len(Garbage) - 1) : LoopPass(seed)) /\ UNCHANGED twin

Return == RunReturn /\ UNCHANGED twin

Next == SetChipTemplate \/ Run \/ Hypothesis \/ Return

Spec == Init /\ [][Next]_vars

----------------------------------------------------------------------------
\* The claims about run.

\* The rough offset of the pass for angle, as the fields of the instance give it.
RoughOf(angle) ==
    hypothesis_rough(self, angle, self.transformed_shape,
                     get_new_shape(self.transformed_shape, angle))

\* C1: with flip = False, the same image given as transformed and vision image
\* and the same landmark set, holding one point tagged (4, 4), given for both,
\* run returns rotation index 0 and an offset within 5 pixels of (0, 0) on
\* each axis.
C1_IdenticalInputsAlign ==
    (/\ pc = "done"
     /\ ~args.flip
     /\ args.transformed_image = args.vision_img
     /\ args.stitch_tc = args.vision_cp
     /\ Len(get_pts_based_on_ids(args.vision_cp, <<4, 4>>)) = 1) =>
        /\ ret.rot_type = 0
        /\ Len(ret.offset) = 2
        /\ Abs(ret.offset[1]) <= 2 * 5
        /\ Abs(ret.offset[2]) <= 2 * 5

\* C2: once the four hypotheses 0, 90, 180, 270 have each recorded an offset
\* and a score, run returns the offset and the score of the hypothesis with
\* the largest score, and the rotation index is the lowest index with that
\* score.
C2_BestIsFirstMaximum ==
    pc = "done" =>
        /\ Len(score_record) = 4 /\ Len(offset_record) = 4
        /\ \A i \in 1..4 : log[i].angle = 90 * (i - 1)
        /\ \E i \in 0..3 :
              /\ \A j \in 0..3 : score_record[j + 1] <= score_record[i + 1]
              /\ \A j \in 0..(i - 1) : score_record[j + 1] < score_record[i + 1]
              /\ ret.rot_type = i
              /\ ret.score = score_record[i + 1]
              /\ ret.offset = offset_record[i + 1]

\* Two hypotheses tie at a score above 0, and neither is the first.
C2_Witness ==
    /\ pc = "done"
    /\ ret.score > 0
    /\ ret.rot_type > 0
    /\ \E j \in 1..4 : j > ret.rot_type + 1 /\ score_record[j] = ret.score

\* C3 as stated: whenever run returns, the offset is a pair of numbers and the
\* rotation index is in {0, 1, 2, 3}, also when every hypothesis records 0.
C3_AsStated ==
    pc = "done" => (Len(ret.offset) = 2 /\ ret.rot_type \in 0..3)

\* C3, amended: whenever run returns, the rotation index is in {0, 1, 2, 3};
\* the offset is a pair of numbers when the score is above 0 and is empty when
\* the score is 0, as it is when every hypothesis records 0.
C3_PairOrEmpty ==
    pc = "done" =>
        /\ ret.rot_type \in 0..3
        /\ ret.score >= 0
        /\ ret.score > 0 => (Len(ret.offset) = 2 /\ ret.offset[1] \in Int /\ ret.offset[2] \in Int)
        /\ ret.score = 0 => ret.offset = <<>>

\* Every hypothesis recorded 0, two of them after a search that found nothing.
C3_Witness ==
    /\ pc = "done"
    /\ \A i \in 1..4 : score_record[i] = 0
    /\ Cardinality({i \in 1..4 : log[i].calls # <<>>}) >= 2
    /\ ret.offset = <<>>

C10_SearchIffBothNonzero ==
    \A i \in 1..Len(log) :
        LET e == log[i]
            r == RoughOf(e.angle)
        IN  /\ ~r.raised
            /\ Len(e.calls) <= 1
            /\ Len(e.calls) = 1 <=> (r.x_offset # 0 /\ r.y_offset # 0)
            /\ Len(e.calls) = 1 =>
                  (e.calls[1].offset_ori = <<r.x_offset, r.y_offset>> /\ e.calls[1].angle = e.angle)
            /\ Len(e.calls) = 0 => (e.scored = <<>> /\ e.offset = <<>> /\ e.score = 0)
            /\ offset_record[i] = e.offset /\ score_record[i] = e.score

\* One run with a pass that searched, a pass skipped for a rough offset that
\* is 0 on one axis only, and a pass skipped for (0, 0).
C10_Witness ==
    /\ pc = "done"
    /\ \E i \in 1..4 : log[i].calls # <<>>
    /\ \E i \in 1..4 : log[i].calls = <<>> /\ (log[i].rough[1] = 0) # (log[i].rough[2] = 0)
    /\ \E i \in 1..4 : log[i].calls = <<>> /\ log[i].rough = <<0, 0>>

----------------------------------------------------------------------------
\* The instance beside a twin: at every run a second instance is constructed,
\* configured with the same chip template and run on the same arguments, in
\* step with the first.  Each reads its own memory outside an array.

TwinPool == SubSeq(LandmarkPool, 1, 2)

TwinArgs ==
    [transformed_image : {<<10, 10, 1>>}, vision_img : {<<10, 10, 1>>},
     vision_cp : PointSets(TwinPool), stitch_tc : PointSets(TwinPool),
     flip : BOOLEAN]

TwinBegin(a) ==
    [self |-> run_fields(set_chip_template(NewInstance, <<self.x_template, self.y_template>>), a),
     pc |-> "loop", num |-> 0, score_record |-> <<>>, offset_record |-> <<>>, ret |-> None]

TwinRecord(t, e) ==
    IF e.raised
    THEN [t EXCEPT !.pc = "raised",
                   !.ret = [raised |-> TRUE, offset |-> <<>>, rot_type |-> 0, score |-> 0]]
    ELSE [t EXCEPT !.offset_record = Append(t.offset_record, e.offset),
                   !.score_record = Append(t.score_record, e.score),
                   !.num = t.num + 1]

TwinPass(t, seed) ==
    IF t.pc = "loop" /\ t.num < Len(t.self.search_angle_set)
    THEN TwinRecord(t, hypothesis(t.self, t.num, seed))
    ELSE t

TwinReturn(t) ==
    IF t.pc = "loop" /\ t.num = Len(t.self.search_angle_set)
    THEN [t EXCEPT !.ret = select_best(t.score_record, t.offset_record), !.pc = "done"]
    ELSE t

RunBoth == \E a \in TwinArgs : RunBegin(a) /\ twin' = TwinBegin(a)

HypothesisBoth ==
    \E seed \in 0..(Len(Garbage) - 1), other \in 0..(Len(Garbage) - 1) :
        LoopPass(seed) /\ twin' = TwinPass(twin, other)

ReturnBoth == RunReturn /\ twin' = TwinReturn(twin)

NextTwin == SetChipTemplate \/ RunBoth \/ HypothesisBoth \/ ReturnBoth

SpecTwin == Init /\ [][NextTwin]_vars

\* C7: on an instance configured once, whatever runs came before, a run
\* returns what a run with the same arguments returns on a freshly configured
\* instance.
C7_SameAsFresh ==
    /\ pc = "done" => (twin.pc = "done" /\ ret = twin.ret)
    /\ pc = "raised" => twin.pc = "raised"

====
